---- MODULE Spec2Model ----
(***************************************************************************)
(* A model of deep4cast's temporal cross-validation code                   *)
(* (src/deep4cast/cv.py): FoldGenerator, VectorScaler, MetricsEvaluator,   *)
(* CrossValidator and Optimizer.                                           *)
(*                                                                         *)
(* Each component has its own specification over the shared variables:     *)
(*   FoldSpec    FoldGenerator and the generator objects it hands out      *)
(*   ScalerSpec  VectorScaler: fit_x, transform_x, fit_transform_x,         *)
(*               inverse_transform_x                                       *)
(*   EvalSpec    MetricsEvaluator: evaluate, reset, to_pickle              *)
(*   CVSpec      CrossValidator.evaluate, one step per statement of its    *)
(*               fold loop, with its scaler and evaluator                  *)
(*   OptSpec     Optimizer.get_objective                                   *)
(***************************************************************************)
EXTENDS Integers, Sequences, FiniteSets, TLC

VARIABLES
    \* ---- FoldGenerator (cv.py 119-173)
    data,           \* self.data: one entry per series, its length
    lag,            \* self.lag
    test_fraction,  \* self.test_fraction, a rational <<num, den>>
    n_folds,        \* self.n_folds
    gens,           \* the generator objects returned by __call__, in order
    \* ---- VectorScaler (cv.py 207-270)
    targets,        \* self.targets: [none |-> BOOLEAN, idx |-> column indices]
    x_mean,         \* self.x_mean: one rational per feature column; <<>> is None
    x_std,          \* self.x_std: one number per feature column; <<>> is None
    x_is_fitted,    \* self.x_is_fitted
    y_mean,         \* self.y_mean: a rational; <<>> is None
    y_std,          \* self.y_std: a number; <<>> is None
    y_is_fitted,    \* self.y_is_fitted
    features,       \* the number of feature columns of the arrays passed in
    x_fit_arg,      \* the argument of the latest fit_x call (history)
    sc_call,        \* the latest VectorScaler call: [op, arg, out, err]
    \* ---- MetricsEvaluator (cv.py 176-204)
    metrics,        \* self.metrics: the ordered metric names
    tearsheet,      \* self.tearsheet: the rows, each a map name -> value
    filename,       \* self.filename is set
    pickled,        \* the rows last written to self.filename
    ev_call,        \* the latest MetricsEvaluator call: [op, outcome, raised]
    \* ---- CrossValidator (cv.py 18-77) and its collaborators
    has_scaler,     \* self.scaler is not None
    folds,          \* the fold tuples self.fold_generator() yields, in order
    is_fitted,      \* forecaster._is_fitted
    cv_pc,          \* where evaluate is: idle, loop, fit, predict, inverse,
                    \* evaluate, returned, raised
    cv_k,           \* the number of folds the running evaluate has finished
    cv_locals,      \* evaluate's locals X_train, X_test, y_train, y_pred_samples
    cv_err,         \* the exception that ended the latest evaluate
    cv_ret,         \* the tearsheet the latest evaluate returned
    cv_calls,       \* the number of evaluate calls started
    cv_outcomes,    \* per fold of the running evaluate, the outcomes of its
                    \* metrics (history)
    \* ---- Optimizer (cv.py 80-116)
    trial,          \* the named hyperparameter values of a trial: name -> value
    ctor_args,      \* what get_args returns: the constructor argument names of
                    \* the model, the forecaster and its optimizer
    attrs,          \* the attributes set so far on the model, on the
                    \* forecaster's optimizer and on the forecaster
    opt_pc,         \* ready, returned, raised
    opt_err         \* the exception that ended get_objective

foldVars == <<data, lag, test_fraction, n_folds, gens>>

scalerVars == <<targets, x_mean, x_std, x_is_fitted, y_mean, y_std,
                y_is_fitted, features, x_fit_arg, sc_call>>

evalVars == <<metrics, tearsheet, filename, pickled, ev_call>>

cvVars == <<has_scaler, folds, is_fitted, cv_pc, cv_k, cv_locals, cv_err,
            cv_ret, cv_calls, cv_outcomes>>

optVars == <<trial, ctor_args, attrs, opt_pc, opt_err>>

vars == <<foldVars, scalerVars, evalVars, cvVars, optVars>>

(***************************************************************************)
(* Bounds of the model.                                                    *)
(***************************************************************************)
MaxLen == 4
MaxSeries == 2
MaxLag == 2
MaxFolds == 2
MaxDen == 3
MaxGens == 2
MaxSamples == 2
MaxRows == 2
MaxCVFolds == 2
MaxCalls == 2

(***************************************************************************)
(* Helpers.                                                                *)
(***************************************************************************)
RECURSIVE GCD(_, _)
GCD(a, b) == IF b = 0 THEN a ELSE GCD(b, a % b)

\* max() of a non-empty list of naturals
MaxOf(s) == CHOOSE m \in {s[k] : k \in DOMAIN s} : \A k \in DOMAIN s : s[k] <= m

\* the rationals n/d in [0, 1] with denominator at most MaxDen, reduced
TestFractions ==
    {f \in (0..MaxDen) \X (1..MaxDen) : f[1] <= f[2] /\ GCD(f[1], f[2]) = 1}

(***************************************************************************)
(* Numbers.  The arrays hold integers; means are exact rationals <<n, d>>  *)
(* in lowest terms with d > 0; a standard deviation is the square root of  *)
(* a rational, so a number is [kind, a, v, b], standing for a*sqrt(v) + b  *)
(* when kind = "num" and for numpy's nan, inf and -inf otherwise.          *)
(***************************************************************************)
Abs(n) == IF n < 0 THEN -n ELSE n

Rat(n, d) ==
    LET g == GCD(Abs(n), Abs(d))
        s == IF d < 0 THEN -1 ELSE 1
    IN  <<(s * n) \div g, (s * d) \div g>>

Zero == <<0, 1>>
One == <<1, 1>>
RAdd(p, q) == Rat(p[1] * q[2] + q[1] * p[2], p[2] * q[2])
RSub(p, q) == Rat(p[1] * q[2] - q[1] * p[2], p[2] * q[2])
RMul(p, q) == Rat(p[1] * q[1], p[2] * q[2])
RDiv(p, q) == Rat(p[1] * q[2], p[2] * q[1])

IsSquare(n) == \E k \in 0..n : k * k = n
Root(n) == CHOOSE k \in 0..n : k * k = n

NaN == [kind |-> "nan", a |-> Zero, v |-> Zero, b |-> Zero]
Inf(sign) ==
    [kind |-> IF sign > 0 THEN "inf" ELSE "-inf",
     a |-> Zero, v |-> Zero, b |-> Zero]

\* a*sqrt(v) + b, the root taken when v is the square of a rational
Num(a, v, b) ==
    IF a = Zero \/ v = Zero
    THEN [kind |-> "num", a |-> Zero, v |-> Zero, b |-> b]
    ELSE IF IsSquare(v[1]) /\ IsSquare(v[2])
    THEN [kind |-> "num", a |-> Zero, v |-> Zero,
          b |-> RAdd(b, RMul(a, <<Root(v[1]), Root(v[2])>>))]
    ELSE [kind |-> "num", a |-> a, v |-> v, b |-> b]

FromInt(x) == Num(Zero, Zero, <<x, 1>>)

(***************************************************************************)
(* VectorScaler                                                            *)
(***************************************************************************)
RECURSIVE SumSeq(_)
SumSeq(s) == IF s = <<>> THEN 0 ELSE Head(s) + SumSeq(Tail(s))

\* X[:, :, c] for the 0-based column c, the lag axis taken of length 1
Column(X, c) == [r \in DOMAIN X |-> X[r][c + 1]]

\* np.mean(col, axis=0)
Mean(col) == Rat(SumSeq(col), Len(col))

\* np.std(col, axis=0): the population standard deviation
Std(col) ==
    LET n == Len(col)
        sq == SumSeq([k \in DOMAIN col |-> col[k] * col[k]])
        s == SumSeq(col)
    IN  Num(One, Rat(n * sq - s * s, n * n), Zero)

\* np.concatenate((stats, pad), axis=1)
Concat(stats, pad) == stats \o pad

\* lines 221-234: the mean and std arrays fit_x stores
FitMean(X) ==
    IF targets.none
    THEN [c \in 1..features |-> Mean(Column(X, c - 1))]
    ELSE Concat([j \in DOMAIN targets.idx |-> Mean(Column(X, targets.idx[j]))],
                [j \in 1..(features - Len(targets.idx)) |-> Zero])

FitStd(X) ==
    IF targets.none
    THEN [c \in 1..features |-> Std(Column(X, c - 1))]
    ELSE Concat([j \in DOMAIN targets.idx |-> Std(Column(X, targets.idx[j]))],
                [j \in 1..(features - Len(targets.idx)) |-> FromInt(1)])

\* fit_x (lines 219-238): the statistics stored, whatever was stored before
FitXKeepIfFitted(X) ==
    IF x_is_fitted
    THEN [mean |-> x_mean, std |-> x_std]
    ELSE [mean |-> FitMean(X), std |-> FitStd(X)]

FitXStats(X) == [mean |-> FitMean(X), std |-> FitStd(X)]

\* fit_y (lines 240-244), y holding one target value per sample
FitYStats(y) == [mean |-> Mean(y), std |-> Std(y)]

\* (x - mean) / std for one integer entry x (lines 247, 250)
Scale(x, mean, std) ==
    LET d == RSub(<<x, 1>>, mean)
    IN  IF std.a = Zero
        THEN IF std.b = Zero
             THEN IF d = Zero THEN NaN ELSE Inf(d[1])
             ELSE Num(Zero, Zero, RDiv(d, std.b))
        ELSE Num(RDiv(d, std.v), std.v, Zero)

\* x * std + mean for one integer entry x (lines 262, 268)
Unscale(x, mean, std) ==
    IF std.a = Zero
    THEN Num(Zero, Zero, RAdd(RMul(<<x, 1>>, std.b), mean))
    ELSE Num(<<x, 1>>, std.v, mean)

\* line 247, broadcast over the samples of X
TransformXWith(X, mean, std) ==
    [r \in DOMAIN X |-> [c \in 1..features |-> Scale(X[r][c], mean[c], std[c])]]

\* line 262
InverseXWith(X, mean, std) ==
    [r \in DOMAIN X |-> [c \in 1..features |-> Unscale(X[r][c], mean[c], std[c])]]

\* line 250
TransformYWith(y, mean, std) == [r \in DOMAIN y |-> Scale(y[r], mean, std)]

\* line 268
InverseYWith(y, mean, std) == [r \in DOMAIN y |-> Unscale(y[r], mean, std)]

NoCall == [op |-> "none", arg |-> <<>>, out |-> <<>>, err |-> "none"]

\* a VectorScaler right after __init__ (lines 210-217), nothing called yet
ScalerFresh ==
    /\ x_mean = <<>> /\ x_std = <<>> /\ x_is_fitted = FALSE
    /\ y_mean = <<>> /\ y_std = <<>> /\ y_is_fitted = FALSE
    /\ x_fit_arg = <<>>
    /\ sc_call = NoCall

\* the scaler variables of a specification that has no scaler
ScalerIdle ==
    /\ targets = [none |-> TRUE, idx |-> <<>>]
    /\ features = 1
    /\ ScalerFresh

\* the input arrays: n samples of `features` entries, entries -1 or 1
Values == {-1, 1}
Arrays(n) == [1..n -> [1..features -> Values]]
FitArrays == UNION {Arrays(n) : n \in 1..MaxSamples}

\* the target index lists: lists of distinct column indices, in any order
TargetLists(F) ==
    {s \in UNION {[1..k -> 0..(F - 1)] : k \in 0..F} :
        \A i, j \in DOMAIN s : i # j => s[i] # s[j]}

\* fit_x (lines 219-238)
FitX(X) ==
    /\ x_mean' = FitXStats(X).mean
    /\ x_std' = FitXStats(X).std
    /\ x_is_fitted' = TRUE
    /\ x_fit_arg' = X
    /\ sc_call' = [op |-> "fit_x", arg |-> X, out |-> <<>>, err |-> "none"]
    /\ UNCHANGED <<targets, features, y_mean, y_std, y_is_fitted>>
    /\ UNCHANGED <<foldVars, evalVars, cvVars, optVars>>

\* transform_x (lines 246-247): unfitted, X - None raises TypeError
TransformX(X) ==
    /\ sc_call' =
          IF x_mean = <<>>
          THEN [op |-> "transform_x", arg |-> X, out |-> <<>>,
                err |-> "TypeError"]
          ELSE [op |-> "transform_x", arg |-> X,
                out |-> TransformXWith(X, x_mean, x_std), err |-> "none"]
    /\ UNCHANGED <<targets, features, x_mean, x_std, x_is_fitted, x_fit_arg,
                   y_mean, y_std, y_is_fitted>>
    /\ UNCHANGED <<foldVars, evalVars, cvVars, optVars>>

\* fit_transform_x (lines 252-254)
FitTransformX(X) ==
    /\ x_mean' = FitXStats(X).mean
    /\ x_std' = FitXStats(X).std
    /\ x_is_fitted' = TRUE
    /\ x_fit_arg' = X
    /\ sc_call' = [op |-> "fit_transform_x", arg |-> X,
                   out |-> TransformXWith(X, FitXStats(X).mean, FitXStats(X).std),
                   err |-> "none"]
    /\ UNCHANGED <<targets, features, y_mean, y_std, y_is_fitted>>
    /\ UNCHANGED <<foldVars, evalVars, cvVars, optVars>>

\* inverse_transform_x (lines 260-264)
InverseTransformX(X) ==
    /\ sc_call' =
          IF x_is_fitted
          THEN [op |-> "inverse_transform_x", arg |-> X,
                out |-> InverseXWith(X, x_mean, x_std), err |-> "none"]
          ELSE [op |-> "inverse_transform_x", arg |-> X, out |-> <<>>,
                err |-> "ValueError"]
    /\ UNCHANGED <<targets, features, x_mean, x_std, x_is_fitted, x_fit_arg,
                   y_mean, y_std, y_is_fitted>>
    /\ UNCHANGED <<foldVars, evalVars, cvVars, optVars>>

(***************************************************************************)
(* MetricsEvaluator                                                        *)
(***************************************************************************)
\* the metric names used; custom_metrics defines the first two
MetricNames == {"mape", "rmse", "not_a_real_metric"}
Registry == {"mape", "rmse"}

\* what computing one metric on (y_samples, y_truth) can come to (lines
\* 187-188): getattr fails, the function raises, or it returns a value
Unresolved == [kind |-> "unresolved", value |-> 0]
Errored == [kind |-> "error", value |-> 0]
Value(v) == [kind |-> "value", value |-> v]
OutcomesOf(name) ==
    IF name \in Registry THEN {Errored, Value(1), Value(2)} ELSE {Unresolved}

\* the outcomes one evaluate call can meet, one per configured metric
CallOutcomes == {o \in [DOMAIN metrics -> {Unresolved, Errored, Value(1), Value(2)}] :
                    \A k \in DOMAIN metrics : o[k] \in OutcomesOf(metrics[k])}

\* eval_results[metric] = value
Put(results, name, v) ==
    [n \in DOMAIN results \cup {name} |-> IF n = name THEN v ELSE results[n]]

EmptyRow == [n \in {} |-> 0]

\* lines 186-195, one metric: the try body, and the bare except that only
\* prints
TryMetricNoExcept(results, name, o) ==
    IF o.kind = "value"
    THEN [raised |-> FALSE, results |-> Put(results, name, o.value)]
    ELSE [raised |-> TRUE, results |-> results]

TryMetric(results, name, o) ==
    IF o.kind = "value"
    THEN [raised |-> FALSE, results |-> Put(results, name, o.value)]
    ELSE [raised |-> FALSE, results |-> results]

\* lines 184-195: the loop over self.metrics from position k on
RECURSIVE EvalLoop(_, _, _)
EvalLoop(o, k, results) ==
    IF k > Len(metrics)
    THEN [raised |-> FALSE, results |-> results]
    ELSE LET step == TryMetric(results, metrics[k], o[k])
         IN  IF step.raised THEN step ELSE EvalLoop(o, k + 1, step.results)

\* line 204 (and line 180): an empty table
ResetKeepsRows(rows) == rows

EmptyTearsheet(rows) == <<>>

\* line 196: self.tearsheet.append(eval_results, ignore_index=True)
AppendRow(rows, row) == Append(rows, row)

\* evaluate (lines 183-198): an exception leaving the loop would skip the
\* append and the pickle
EvaluatorEvaluate(o) ==
    LET r == EvalLoop(o, 1, EmptyRow)
    IN  /\ tearsheet' =
              IF r.raised THEN tearsheet ELSE AppendRow(tearsheet, r.results)
        /\ pickled' = IF ~r.raised /\ filename THEN tearsheet' ELSE pickled
        /\ ev_call' = [op |-> "evaluate", outcome |-> o, raised |-> r.raised,
                       rows_before |-> Len(tearsheet)]
        /\ UNCHANGED <<metrics, filename>>

\* reset (lines 203-204)
EvaluatorReset ==
    /\ tearsheet' = EmptyTearsheet(tearsheet)
    /\ ev_call' = [op |-> "reset", outcome |-> <<>>, raised |-> FALSE,
                   rows_before |-> Len(tearsheet)]
    /\ UNCHANGED <<metrics, filename, pickled>>

\* to_pickle (lines 200-201)
ToPickle ==
    /\ filename
    /\ pickled' = tearsheet
    /\ ev_call' = [op |-> "to_pickle", outcome |-> <<>>, raised |-> FALSE,
                   rows_before |-> Len(tearsheet)]
    /\ UNCHANGED <<metrics, tearsheet>>
    /\ UNCHANGED filename

NoEvalCall == [op |-> "none", outcome |-> <<>>, raised |-> FALSE, rows_before |-> 0]

\* the lists of distinct metric names
MetricLists ==
    {s \in UNION {[1..k -> MetricNames] : k \in 1..Cardinality(MetricNames)} :
        \A i, j \in DOMAIN s : i # j => s[i] # s[j]}

\* a MetricsEvaluator right after __init__ (lines 178-181)
EvalFresh ==
    /\ tearsheet = <<>>
    /\ pickled = <<>>
    /\ ev_call = NoEvalCall

\* the evaluator variables of a specification that has no evaluator
EvalIdle ==
    /\ metrics = <<"mape">>
    /\ filename = FALSE
    /\ EvalFresh

(***************************************************************************)
(* CrossValidator.evaluate, one action per call it makes on a collaborator *)
(***************************************************************************)
NoLocals == [X_train |-> <<>>, X_test |-> <<>>, y_train |-> <<>>,
             y_pred_raw |-> <<>>, y_pred_samples |-> <<>>]

\* the folds a fold generator can yield: X arrays of one feature column, y
\* arrays of one target value per sample
FoldData ==
    [X_train : {<<<<-1>>, <<1>>>>, <<<<1>>, <<3>>>>},
     X_test  : {<<<<1>>>>},
     y_train : {<<-1, 1>>, <<1, 3>>},
     y_test  : {<<1>>}]

\* what forecaster.predict can return for a test set of one sample
Predictions == {<<0>>, <<1>>}

\* a CrossValidator right after __init__ (lines 42-45), evaluate not called
CVFresh ==
    /\ is_fitted = FALSE
    /\ cv_pc = "idle" /\ cv_k = 0 /\ cv_locals = NoLocals
    /\ cv_err = "none" /\ cv_ret = <<>> /\ cv_calls = 0
    /\ cv_outcomes = <<>>

\* the variables of a specification that has no CrossValidator
CVIdle ==
    /\ has_scaler = FALSE
    /\ folds = <<>>
    /\ CVFresh

\* lines 49-51: the evaluator is reset and the fold generator called
EvaluateBegin ==
    /\ cv_pc \in {"idle", "returned", "raised"}
    /\ cv_calls < MaxCalls
    /\ cv_calls' = cv_calls + 1
    /\ EvaluatorReset
    /\ cv_pc' = "loop" /\ cv_k' = 0 /\ cv_err' = "none" /\ cv_ret' = <<>>
    /\ cv_outcomes' = <<>>
    /\ UNCHANGED <<has_scaler, folds, is_fitted, cv_locals>>
    /\ UNCHANGED <<foldVars, scalerVars, optVars>>

\* lines 51-61 with a scaler: the next fold is bound, the forecaster marked
\* unfitted, X_train, X_test and y_train scaled
FoldScale ==
    /\ cv_pc = "loop" /\ cv_k < Len(folds) /\ has_scaler
    /\ LET f == folds[cv_k + 1]
           sx == FitXStats(f.X_train)
           sy == FitYStats(f.y_train)
       IN  /\ x_mean' = sx.mean /\ x_std' = sx.std /\ x_is_fitted' = TRUE
           /\ x_fit_arg' = f.X_train
           /\ y_mean' = sy.mean /\ y_std' = sy.std /\ y_is_fitted' = TRUE
           /\ sc_call' = [op |-> "fit_transform_y", arg |-> f.y_train,
                          out |-> TransformYWith(f.y_train, sy.mean, sy.std),
                          err |-> "none"]
           /\ cv_locals' =
                 [X_train |-> TransformXWith(f.X_train, sx.mean, sx.std),
                  X_test |-> TransformXWith(f.X_test, sx.mean, sx.std),
                  y_train |-> TransformYWith(f.y_train, sy.mean, sy.std),
                  y_pred_raw |-> <<>>, y_pred_samples |-> <<>>]
    /\ is_fitted' = FALSE
    /\ cv_pc' = "fit"
    /\ UNCHANGED <<has_scaler, folds, cv_k, cv_err, cv_ret, cv_calls, cv_outcomes>>
    /\ UNCHANGED <<targets, features>>
    /\ UNCHANGED <<foldVars, evalVars, optVars>>

\* lines 51-58 without a scaler: the fold data is used as it is
FoldRaw ==
    /\ cv_pc = "loop" /\ cv_k < Len(folds) /\ ~has_scaler
    /\ LET f == folds[cv_k + 1]
       IN  cv_locals' = [X_train |-> f.X_train, X_test |-> f.X_test,
                         y_train |-> f.y_train,
                         y_pred_raw |-> <<>>, y_pred_samples |-> <<>>]
    /\ is_fitted' = FALSE
    /\ cv_pc' = "fit"
    /\ UNCHANGED <<has_scaler, folds, cv_k, cv_err, cv_ret, cv_calls, cv_outcomes>>
    /\ UNCHANGED <<foldVars, scalerVars, evalVars, optVars>>

\* line 64: forecaster.fit returns
ForecasterFit ==
    /\ cv_pc = "fit"
    /\ is_fitted' = TRUE
    /\ cv_pc' = "predict"
    /\ UNCHANGED <<has_scaler, folds, cv_k, cv_locals, cv_err, cv_ret,
                   cv_calls, cv_outcomes>>
    /\ UNCHANGED <<foldVars, scalerVars, evalVars, optVars>>

\* line 64: forecaster.fit raises, which evaluate does not catch
ForecasterFitFails ==
    /\ cv_pc = "fit"
    /\ cv_pc' = "raised" /\ cv_err' = "fit"
    /\ UNCHANGED <<has_scaler, folds, is_fitted, cv_k, cv_locals, cv_ret,
                   cv_calls, cv_outcomes>>
    /\ UNCHANGED <<foldVars, scalerVars, evalVars, optVars>>

\* line 67: forecaster.predict returns samples
ForecasterPredict ==
    /\ cv_pc = "predict"
    /\ \E p \in Predictions :
          cv_locals' = [cv_locals EXCEPT !.y_pred_raw = p, !.y_pred_samples = p]
    /\ cv_pc' = "inverse"
    /\ UNCHANGED <<has_scaler, folds, is_fitted, cv_k, cv_err, cv_ret,
                   cv_calls, cv_outcomes>>
    /\ UNCHANGED <<foldVars, scalerVars, evalVars, optVars>>

\* line 67: forecaster.predict raises, which evaluate does not catch
ForecasterPredictFails ==
    /\ cv_pc = "predict"
    /\ cv_pc' = "raised" /\ cv_err' = "predict"
    /\ UNCHANGED <<has_scaler, folds, is_fitted, cv_k, cv_locals, cv_ret,
                   cv_calls, cv_outcomes>>
    /\ UNCHANGED <<foldVars, scalerVars, evalVars, optVars>>

\* line 70 with a scaler: self.scaler.inverse_transform_y(y_pred_samples);
\* the scaler was fitted on y at line 61
InverseScale ==
    /\ cv_pc = "inverse" /\ has_scaler /\ y_is_fitted
    /\ cv_locals' = [cv_locals EXCEPT !.y_pred_samples =
                        InverseYWith(cv_locals.y_pred_samples, y_mean, y_std)]
    /\ sc_call' = [op |-> "inverse_transform_y", arg |-> cv_locals.y_pred_samples,
                   out |-> cv_locals'.y_pred_samples, err |-> "none"]
    /\ cv_pc' = "evaluate"
    /\ UNCHANGED <<has_scaler, folds, is_fitted, cv_k, cv_err, cv_ret,
                   cv_calls, cv_outcomes>>
    /\ UNCHANGED <<targets, x_mean, x_std, x_is_fitted, y_mean, y_std,
                   y_is_fitted, features, x_fit_arg>>
    /\ UNCHANGED <<foldVars, evalVars, optVars>>

\* line 70 without a scaler: None has no attribute inverse_transform_y
InverseNoScaler ==
    /\ cv_pc = "inverse" /\ ~has_scaler
    /\ cv_pc' = "raised" /\ cv_err' = "AttributeError"
    /\ UNCHANGED <<has_scaler, folds, is_fitted, cv_k, cv_locals, cv_ret,
                   cv_calls, cv_outcomes>>
    /\ UNCHANGED <<foldVars, scalerVars, evalVars, optVars>>

\* line 73: self.evaluator.evaluate(y_pred_samples, y_test); the loop goes on
FoldEvaluate ==
    /\ cv_pc = "evaluate"
    /\ \E o \in CallOutcomes :
          /\ EvaluatorEvaluate(o)
          /\ cv_outcomes' = Append(cv_outcomes, o)
    /\ cv_k' = cv_k + 1
    /\ cv_pc' = "loop"
    /\ UNCHANGED <<has_scaler, folds, is_fitted, cv_locals, cv_err, cv_ret,
                   cv_calls>>
    /\ UNCHANGED <<foldVars, scalerVars, optVars>>

\* line 77: the generator is exhausted, the tearsheet returned
EvaluateReturn ==
    /\ cv_pc = "loop" /\ cv_k = Len(folds)
    /\ cv_ret' = tearsheet
    /\ cv_pc' = "returned"
    /\ UNCHANGED <<has_scaler, folds, is_fitted, cv_k, cv_locals, cv_err,
                   cv_calls, cv_outcomes>>
    /\ UNCHANGED <<foldVars, scalerVars, evalVars, optVars>>


(***************************************************************************)
(* Optimizer                                                               *)
(***************************************************************************)
\* lines 13-15
MODEL_ARGS == {"filters", "num_layers"}
OPTIMIZER_ARGS == {"lr"}
FORECASTER_ARGS == {"epochs", "batch_size"}

\* the keys of the dict get_args returns (lines 112-116), in insertion
\* order, each string as the sequence of its characters
ArgsKeys ==
    << <<"m", "o", "d", "e", "l">>,
       <<"f", "o", "r", "e", "c", "a", "s", "t", "e", "r">>,
       <<"o", "p", "t", "i", "m", "i", "z", "e", "r">> >>

NoAttrs == [model |-> EmptyRow, optimizer |-> EmptyRow, forecaster |-> EmptyRow]

\* line 93, `for key, value in args`: one item of the iteration is unpacked
\* into two names, which needs an item of exactly two elements
Unpack(item) ==
    IF Len(item) = 2
    THEN [ok |-> TRUE, key |-> item[1], value |-> item[2]]
    ELSE [ok |-> FALSE, key |-> "", value |-> ""]

\* lines 94-101: one key is set on the target its branch names, or refused
Route(a, key, value) ==
    IF key \in ctor_args.model /\ key \in MODEL_ARGS
    THEN [err |-> "none", attrs |-> [a EXCEPT !.model = Put(a.model, key, value)]]
    ELSE IF key \in ctor_args.forecaster /\ key \in OPTIMIZER_ARGS
    THEN [err |-> "none",
          attrs |-> [a EXCEPT !.optimizer = Put(a.optimizer, key, value)]]
    ELSE IF key \in ctor_args.forecaster /\ key \in FORECASTER_ARGS
    THEN [err |-> "none",
          attrs |-> [a EXCEPT !.forecaster = Put(a.forecaster, key, value)]]
    ELSE [err |-> "ValueError: not a valid argument", attrs |-> a]

\* lines 91-101: args is rebound to the dict of get_args and the loop runs
\* over that dict, that is over its keys, from position k on
RECURSIVE RouteLoop(_, _)
RouteLoop(k, a) ==
    IF k > Len(ArgsKeys)
    THEN [err |-> "none", attrs |-> a]
    ELSE LET u == Unpack(ArgsKeys[k])
         IN  IF ~u.ok
             THEN [err |-> "ValueError: too many values to unpack", attrs |-> a]
             ELSE LET r == Route(a, u.key, u.value)
                  IN  IF r.err # "none" THEN r ELSE RouteLoop(k + 1, r.attrs)

\* the trials: some of the names of the three lists and `bogus`, each with
\* a value
Trials ==
    UNION {[names -> {1, 2}] :
              names \in SUBSET {"filters", "lr", "epochs", "bogus"} \ {{}}}

\* get_objective(**tr) (lines 90-105); the objective closure of lines
\* 103-105 is defined and dropped
GetObjective(tr) ==
    /\ trial' = tr
    /\ LET r == RouteLoop(1, attrs)
       IN  /\ attrs' = r.attrs
           /\ opt_err' = r.err
           /\ opt_pc' = IF r.err = "none" THEN "returned" ELSE "raised"
    /\ UNCHANGED ctor_args
    /\ UNCHANGED <<foldVars, scalerVars, evalVars, cvVars>>

\* the variables of a specification that has no Optimizer
OptIdle ==
    /\ trial = EmptyRow
    /\ ctor_args = [model |-> {}, forecaster |-> {}, optimizer |-> {}]
    /\ attrs = NoAttrs
    /\ opt_pc = "ready"
    /\ opt_err = "none"


(***************************************************************************)
(* FoldGenerator.generate_folds                                            *)
(***************************************************************************)

\* np.arange(start, stop): the integers start, start+1, ..., stop-1
Arange(start, stop) ==
    IF stop <= start THEN <<>> ELSE [k \in 1..(stop - start) |-> start + k - 1]

\* lines 135-138: the maximum length of the series of the collection
DataLength == MaxOf(data)

\* line 139: int(data_length * self.test_fraction)
TestLength == (DataLength * test_fraction[1]) \div test_fraction[2]

\* line 140
TrainLength == DataLength - n_folds * TestLength

\* lines 147-150
TrainInd(i) ==
    Arange(-(i + 1) * TestLength - TrainLength, -(i + 1) * TestLength)

\* lines 151-154
TestIndSameBlock(i) == Arange(-TestLength - lag, 0)

TestInd(i) ==
    Arange(-(i + 1) * TestLength - lag, -i * TestLength)

\* numpy's bounds check of one index into an axis of length len
InBounds(k, len) == -len <= k /\ k < len

\* time_series[ind, :] for the series s: the samples selected, each sample
\* named <<s, position>> with positions 1..len; a negative index counts
\* from the end.
Take(s, ind) ==
    [k \in DOMAIN ind |->
        <<s, IF ind[k] < 0 THEN data[s] + ind[k] + 1 ELSE ind[k] + 1>>]

\* lines 146-156 raise IndexError when an index leaves a series
SliceFails(i) ==
    \E s \in DOMAIN data :
        \/ \E k \in DOMAIN TrainInd(i) : ~InBounds(TrainInd(i)[k], data[s])
        \/ \E k \in DOMAIN TestInd(i) : ~InBounds(TestInd(i)[k], data[s])

\* lines 145-158: data_train and data_test of fold i, the arguments of the
\* two sequentialize calls whose results are yielded (lines 161-173)
FoldAt(i) ==
    [data_train |-> [s \in DOMAIN data |-> Take(s, TrainInd(i))],
     data_test  |-> [s \in DOMAIN data |-> Take(s, TestInd(i))]]

\* line 144: the loop index of generator g is a local of that generator
LoopIndexShared(g) == MaxOf([h \in DOMAIN gens |-> gens[h].i])

LoopIndex(g) == gens[g].i

\* line 129-130: __call__ returns a new generator object; its body has not
\* started yet
NewGenerator == [pc |-> "created", i |-> 0, yielded |-> <<>>]

Call ==
    /\ Len(gens) < MaxGens
    /\ gens' = Append(gens, NewGenerator)
    /\ UNCHANGED <<data, lag, test_fraction, n_folds>>
    /\ UNCHANGED <<scalerVars, evalVars, cvVars, optVars>>

Live(g) == gens[g].pc \in {"created", "suspended"}

\* next(g) runs the body up to the next yield of line 173
GenYield(g) ==
    /\ Live(g)
    /\ LoopIndex(g) < n_folds
    /\ ~SliceFails(LoopIndex(g))
    /\ gens' = [gens EXCEPT ![g] =
                    [pc |-> "suspended",
                     i |-> LoopIndex(g) + 1,
                     yielded |-> Append(gens[g].yielded, FoldAt(LoopIndex(g)))]]
    /\ UNCHANGED <<data, lag, test_fraction, n_folds>>
    /\ UNCHANGED <<scalerVars, evalVars, cvVars, optVars>>

\* next(g) raises IndexError out of lines 155-156; the generator is finished
GenRaise(g) ==
    /\ Live(g)
    /\ LoopIndex(g) < n_folds
    /\ SliceFails(LoopIndex(g))
    /\ gens' = [gens EXCEPT ![g].pc = "raised"]
    /\ UNCHANGED <<data, lag, test_fraction, n_folds>>
    /\ UNCHANGED <<scalerVars, evalVars, cvVars, optVars>>

\* next(g) leaves the loop of line 144: StopIteration
GenStop(g) ==
    /\ Live(g)
    /\ LoopIndex(g) >= n_folds
    /\ gens' = [gens EXCEPT ![g].pc = "done"]
    /\ UNCHANGED <<data, lag, test_fraction, n_folds>>
    /\ UNCHANGED <<scalerVars, evalVars, cvVars, optVars>>

(***************************************************************************)
(* The specifications, one per component.                                  *)
(***************************************************************************)
FoldIdle ==
    /\ data = <<1>> /\ lag = 0 /\ test_fraction = Zero /\ n_folds = 1
    /\ gens = <<>>

\* the numbers of feature columns of the arrays
FeatureCounts == {1, 2}

ScalerInit ==
    /\ features \in FeatureCounts
    /\ targets \in {[none |-> TRUE, idx |-> <<>>]}
                     \cup {[none |-> FALSE, idx |-> s] : s \in TargetLists(features)}
    /\ ScalerFresh
    /\ FoldIdle
    /\ EvalIdle
    /\ CVIdle
    /\ OptIdle

ScalerNext ==
    \/ \E X \in FitArrays : FitX(X)
    \/ \E X \in Arrays(1) : TransformX(X)
    \/ \E X \in FitArrays : FitTransformX(X)
    \/ \E X \in Arrays(1) : InverseTransformX(X)

ScalerSpec == ScalerInit /\ [][ScalerNext]_vars

Evaluate ==
    /\ Len(tearsheet) < MaxRows
    /\ \E o \in CallOutcomes : EvaluatorEvaluate(o)
    /\ UNCHANGED <<foldVars, scalerVars, cvVars, optVars>>

Reset ==
    /\ EvaluatorReset
    /\ UNCHANGED <<foldVars, scalerVars, cvVars, optVars>>

Pickle ==
    /\ ToPickle
    /\ UNCHANGED <<foldVars, scalerVars, cvVars, optVars>>

EvalInit ==
    /\ metrics \in MetricLists
    /\ filename \in BOOLEAN
    /\ EvalFresh
    /\ FoldIdle
    /\ ScalerIdle
    /\ CVIdle
    /\ OptIdle

EvalNext == Evaluate \/ Reset \/ Pickle

EvalSpec == EvalInit /\ [][EvalNext]_vars

FoldInit ==
    /\ data \in UNION {[1..n -> 1..MaxLen] : n \in 1..MaxSeries}
    /\ lag \in 0..MaxLag
    /\ test_fraction \in TestFractions
    /\ n_folds \in 1..MaxFolds
    /\ gens = <<>>
    /\ ScalerIdle
    /\ EvalIdle
    /\ CVIdle
    /\ OptIdle

FoldNext ==
    \/ Call
    \/ \E g \in DOMAIN gens : GenYield(g)
    \/ \E g \in DOMAIN gens : GenRaise(g)
    \/ \E g \in DOMAIN gens : GenStop(g)

FoldSpec == FoldInit /\ [][FoldNext]_vars

CVInit ==
    /\ has_scaler \in BOOLEAN
    /\ folds \in UNION {[1..n -> FoldData] : n \in 1..MaxCVFolds}
    /\ metrics \in {<<"mape", "not_a_real_metric">>, <<"not_a_real_metric">>}
    /\ filename = FALSE
    /\ targets = [none |-> TRUE, idx |-> <<>>]
    /\ features = 1
    /\ ScalerFresh
    /\ EvalFresh
    /\ CVFresh
    /\ FoldIdle
    /\ OptIdle

CVNext ==
    \/ EvaluateBegin
    \/ FoldScale
    \/ FoldRaw
    \/ ForecasterFit
    \/ ForecasterFitFails
    \/ ForecasterPredict
    \/ ForecasterPredictFails
    \/ InverseScale
    \/ InverseNoScaler
    \/ FoldEvaluate
    \/ EvaluateReturn

CVSpec == CVInit /\ [][CVNext]_vars

OptInit ==
    /\ trial = EmptyRow
    /\ ctor_args \in [model : {{}, {"filters", "num_layers"}},
                      forecaster : {{}, {"lr", "epochs", "batch_size"}},
                      optimizer : {{"lr"}}]
    /\ attrs = NoAttrs
    /\ opt_pc = "ready"
    /\ opt_err = "none"
    /\ FoldIdle
    /\ ScalerIdle
    /\ EvalIdle
    /\ CVIdle

OptNext == \E tr \in Trials : GetObjective(tr)

OptSpec == OptInit /\ [][OptNext]_vars

(***************************************************************************)
(* Properties of FoldGenerator, checked under FoldSpec.                    *)
(***************************************************************************)
Range(f) == {f[k] : k \in DOMAIN f}

EqualLength == \A s \in DOMAIN data : data[s] = DataLength

Finished(g) == gens[g].pc \in {"done", "raised"}

\* the test_length-sized test block of a yielded fold for series s: the
\* window [-(i+1)*test_length, -i*test_length), i.e. the test slice without
\* its lag leading samples
TestBlock(fold, s) ==
    LET t == fold.data_test[s]
    IN  Range(SubSeq(t, Len(t) - TestLength + 1, Len(t)))

\* a generator never yields more than n_folds folds, a finished one has
\* yielded exactly n_folds, and the test blocks of two of its folds share
\* no sample
FoldsCountedAndDisjoint(g) ==
    /\ Len(gens[g].yielded) <= n_folds
    /\ Finished(g) => Len(gens[g].yielded) = n_folds
    /\ \A i, j \in DOMAIN gens[g].yielded :
          i # j =>
            \A s \in DOMAIN data :
                TestBlock(gens[g].yielded[i], s)
                    \cap TestBlock(gens[g].yielded[j], s) = {}

\* C1 as stated: for every collection of equal-length series and every
\* (n_folds, test_fraction) with train_length > 0, whatever the lag, one
\* invocation of generate_folds yields exactly n_folds folds whose
\* test_length-sized test blocks are pairwise disjoint.
C1_Original ==
    (EqualLength /\ TrainLength > 0) =>
        \A g \in DOMAIN gens : FoldsCountedAndDisjoint(g)

\* C1 amended: the same, for configurations with lag <= train_length (with a
\* longer lag the test slice of the last fold starts before the series and
\* the generator raises IndexError instead of yielding it).
C1_FoldsCountedAndDisjoint ==
    (EqualLength /\ TrainLength > 0 /\ lag <= TrainLength) =>
        \A g \in DOMAIN gens : FoldsCountedAndDisjoint(g)

C1_Witness ==
    /\ EqualLength /\ TrainLength > 0 /\ lag <= TrainLength
    /\ Len(data) >= 2 /\ TestLength >= 1
    /\ \E g \in DOMAIN gens :
          gens[g].pc = "done" /\ Len(gens[g].yielded) >= 2

\* C6: fold generation is restartable and deterministic. Every generator
\* the entry point returned has yielded, so far, the same folds as every
\* other one, whatever state the others are in; its cursor counts its own
\* yields only; its first fold is fold 0, whose test slice ends with the
\* last sample of each series; and two exhausted generators have yielded
\* the same sequence.
C6_Restartable ==
    \A g \in DOMAIN gens :
        /\ gens[g].i = Len(gens[g].yielded)
        /\ gens[g].yielded # <<>> =>
              \A s \in DOMAIN data :
                  LET t == gens[g].yielded[1].data_test[s]
                  IN  t # <<>> => t[Len(t)] = <<s, data[s]>>
        /\ \A h \in DOMAIN gens :
              /\ \A k \in DOMAIN gens[g].yielded \cap DOMAIN gens[h].yielded :
                    gens[g].yielded[k] = gens[h].yielded[k]
              /\ (Finished(g) /\ Finished(h)) =>
                    gens[g].yielded = gens[h].yielded

C6_Witness ==
    /\ Len(gens) >= 2
    /\ gens[1].pc = "done" /\ Len(gens[1].yielded) >= 2
    /\ gens[2].pc = "suspended" /\ Len(gens[2].yielded) = 1
    /\ TestLength >= 1

\* C7: a configuration with train_length <= 0 is reported as an error when
\* folds are generated: no generator yields a fold or runs to completion.
C7_NonPositiveTrainLengthRejected ==
    TrainLength <= 0 =>
        \A g \in DOMAIN gens :
            gens[g].yielded = <<>> /\ gens[g].pc \in {"created", "raised"}

\* the folds whose indices generator g has computed: those it yielded and
\* the one it raised on
Computed(g) ==
    {i \in 0..(n_folds - 1) :
        i < gens[g].i \/ (i = gens[g].i /\ gens[g].pc = "raised")}

IndicesWithin(i, s) ==
    /\ \A k \in DOMAIN TrainInd(i) :
          -data[s] <= TrainInd(i)[k] /\ TrainInd(i)[k] <= -1
    /\ \A k \in DOMAIN TestInd(i) :
          -data[s] <= TestInd(i)[k] /\ TestInd(i)[k] <= -1

\* C10: with lag <= train_length, for series of any lengths, all train and
\* test indices computed for any fold lie within each series' own bounds
\* [-len(s), -1].
C10_IndicesWithin ==
    lag <= TrainLength =>
        \A g \in DOMAIN gens : \A i \in Computed(g) :
            \A s \in DOMAIN data : IndicesWithin(i, s)

\* the same restricted to collections whose series all have the length L the
\* fold lengths are computed from
EqualLengthIndicesWithin ==
    (EqualLength /\ lag <= TrainLength) =>
        \A g \in DOMAIN gens : \A i \in Computed(g) :
            \A s \in DOMAIN data : IndicesWithin(i, s)

(***************************************************************************)
(* Properties of VectorScaler, checked under ScalerSpec.                   *)
(***************************************************************************)
IsTarget(c) == \E j \in DOMAIN targets.idx : targets.idx[j] = c

\* the targets are the leading columns 0, 1, ..., k-1, in this order
LeadingTargets == \A j \in DOMAIN targets.idx : targets.idx[j] = j - 1

Transformed ==
    sc_call.op \in {"transform_x", "fit_transform_x"} /\ sc_call.err = "none"

\* what target-restricted mode promises of a fitted scaler: a target column
\* holds its own statistics, a non-target column holds mean 0 and std 1 and
\* comes out of transform_x as it went in
TargetRestrictedStats ==
    \A c \in 0..(features - 1) :
        IF IsTarget(c)
        THEN /\ x_mean[c + 1] = Mean(Column(x_fit_arg, c))
             /\ x_std[c + 1] = Std(Column(x_fit_arg, c))
        ELSE /\ x_mean[c + 1] = Zero
             /\ x_std[c + 1] = FromInt(1)
             /\ Transformed =>
                   \A r \in DOMAIN sc_call.arg :
                       sc_call.out[r][c + 1] = FromInt(sc_call.arg[r][c + 1])

\* C2: in target-restricted mode, for any choice of target column
\* positions, after fit_x every non-target column has mean 0 and std 1 and
\* is unchanged by transform_x, and every target column position holds that
\* column's own mean and std.
C2_TargetRestricted ==
    (~targets.none /\ x_is_fitted) => TargetRestrictedStats

\* the same restricted to targets that are the leading columns 0, ..., k-1
\* in this order, where the position fit_x stores a statistic at is the
\* column it was computed from
LeadingTargetRestricted ==
    (~targets.none /\ x_is_fitted /\ LeadingTargets) => TargetRestrictedStats

(***************************************************************************)
(* Properties of MetricsEvaluator, checked under EvalSpec.                 *)
(***************************************************************************)
\* the names whose metric was computed in a call with outcomes o
Succeeded(o) == {metrics[k] : k \in {j \in DOMAIN metrics : o[j].kind = "value"}}

\* the row an evaluate call with outcomes o has to append: the value of
\* every metric that succeeded and nothing else
RowFor(o, row) ==
    /\ DOMAIN row = Succeeded(o)
    /\ \A k \in DOMAIN metrics : o[k].kind = "value" => row[metrics[k]] = o[k].value

\* C5: evaluate never raises because a metric is unresolvable or errors:
\* whatever the outcomes of the metrics, the call appends exactly one row,
\* which holds the value of every metric that succeeded (those after a
\* failed one included) and has no entry for a failed one.
C5_EvaluateResilient ==
    ev_call.op = "evaluate" =>
        /\ ~ev_call.raised
        /\ Len(tearsheet) = ev_call.rows_before + 1
        /\ RowFor(ev_call.outcome, tearsheet[Len(tearsheet)])

C5_Witness ==
    /\ ev_call.op = "evaluate"
    /\ metrics = <<"mape", "not_a_real_metric", "rmse">>
    /\ ev_call.outcome = <<Value(1), Unresolved, Value(2)>>
    /\ ev_call.rows_before = 1
    /\ Len(tearsheet) = 2
    /\ DOMAIN tearsheet[2] = {"mape", "rmse"}

(***************************************************************************)
(* Properties of CrossValidator, checked under CVSpec.                     *)
(***************************************************************************)
\* C4: a CrossValidator constructed without a scaler can run evaluate: the
\* scaling steps are skipped, and nothing but a failure of the forecaster
\* itself ends evaluate with an exception.
C4_NoScalerEvaluates ==
    (~has_scaler /\ cv_pc = "raised") => cv_err \in {"fit", "predict"}

\* C8: with a scaler configured, the tearsheet a completed evaluate returns
\* has exactly one row per fold of that call, in fold order, each the row
\* of that fold's metric outcomes (an empty row when all of them failed);
\* rows of earlier evaluate calls are gone.
C8_OneRowPerFold ==
    (has_scaler /\ cv_pc = "returned") =>
        /\ Len(cv_ret) = Len(folds)
        /\ Len(cv_outcomes) = Len(folds)
        /\ \A k \in DOMAIN cv_ret : RowFor(cv_outcomes[k], cv_ret[k])

C8_Witness ==
    /\ has_scaler /\ cv_pc = "returned" /\ cv_calls = 2
    /\ Len(folds) = 2 /\ Len(cv_ret) = 2
    /\ cv_ret[1] = EmptyRow
    /\ cv_ret[2] # EmptyRow

\* C9: while evaluate works on fold k with a scaler, the x statistics are
\* those fitted on fold k's X_train and X_test was transformed with them,
\* the y statistics are those fitted on fold k's y_train and the
\* predictions are inverse-transformed with them: never statistics of test
\* data or of an earlier fold.
C9_FoldStatistics ==
    (has_scaler /\ cv_pc \in {"fit", "predict", "inverse", "evaluate"}) =>
        LET f == folds[cv_k + 1]
        IN  /\ x_fit_arg = f.X_train
            /\ x_mean = FitMean(f.X_train) /\ x_std = FitStd(f.X_train)
            /\ y_mean = Mean(f.y_train) /\ y_std = Std(f.y_train)
            /\ cv_locals.X_test =
                  TransformXWith(f.X_test, FitMean(f.X_train), FitStd(f.X_train))
            /\ cv_pc = "evaluate" =>
                  cv_locals.y_pred_samples =
                      InverseYWith(cv_locals.y_pred_raw,
                                   Mean(f.y_train), Std(f.y_train))

C9_Witness ==
    /\ has_scaler /\ cv_pc = "evaluate" /\ cv_k = 1 /\ Len(folds) = 2
    /\ folds[1].X_train # folds[2].X_train
    /\ folds[1].y_train # folds[2].y_train
    /\ x_mean # FitMean(folds[1].X_train)
    /\ y_mean # Mean(folds[1].y_train)

(***************************************************************************)
(* Properties of Optimizer, checked under OptSpec.                         *)
(***************************************************************************)
Given(name) == name \in DOMAIN trial

SetOn(target, name) == name \in DOMAIN target /\ target[name] = trial[name]

\* C3: once get_objective has run on a trial, `filters` is set on the
\* model, `lr` on the forecaster's internal optimizer and `epochs` on the
\* forecaster, each with the trial's value; a trial naming `bogus` ends in
\* the configuration error, and a trial of routable names only does not.
C3_Routing ==
    opt_pc # "ready" =>
        /\ Given("filters") /\ ~Given("bogus") => SetOn(attrs.model, "filters")
        /\ Given("lr") /\ ~Given("bogus") => SetOn(attrs.optimizer, "lr")
        /\ Given("epochs") /\ ~Given("bogus") => SetOn(attrs.forecaster, "epochs")
        /\ Given("bogus") <=> opt_err = "ValueError: not a valid argument"

====
